---- MODULE Spec2Model ----
(***************************************************************************)
(* State-machine model of the cash-closing form component                  *)
(* (src/src/app.component.ts, class AppComponent).                         *)
(*                                                                         *)
(* Every signal of the component is a variable.  A value of type           *)
(* `number | null` or `string | null` is a sequence of length at most one: *)
(* Null is <<>> and the number n is <<n>>.  Each event handler is one      *)
(* action that runs to completion (the UI event loop is single-threaded);  *)
(* the HTTP request and the setTimeout callback are the only deferred      *)
(* work, kept in `pending` and `timers` until their callback runs.         *)
(* The shift literal 'manana' is written without its tilde.                *)
(***************************************************************************)
EXTENDS Integers, Sequences, FiniteSets, TLC

VARIABLES
    closerName, shift, firstDataIncome, pedidosYaIncome, mercadoPagoIncome,
    dailySummary, cashEntries, expenses,      \* form state signals
    webhookStatus, webhookError,              \* webhook status signals
    logHistory,                               \* history log signal
    pending,     \* HTTP requests awaiting their response (subscribed observers)
    timers,      \* number of scheduled setTimeout callbacks not yet run
    clock,       \* number of submit actions so far; the value of `now`
    edits,       \* number of user edit events so far
    requests,    \* history: number of http.post calls issued so far
    accepted,    \* history: batches whose request succeeded, newest first
    lastEvent    \* history: the event handled by the last step

formVars == <<closerName, shift, firstDataIncome, pedidosYaIncome,
              mercadoPagoIncome, dailySummary, cashEntries, expenses>>
vars == <<closerName, shift, firstDataIncome, pedidosYaIncome, mercadoPagoIncome,
          dailySummary, cashEntries, expenses, webhookStatus, webhookError,
          logHistory, pending, timers, clock, edits, requests, accepted,
          lastEvent>>

----------------------------------------------------------------------------
(* Bounds of the model *)

MaxEdits == 2        \* user edit events in one behaviour
MaxSubmits == 3      \* submit actions in one behaviour
MaxRows == 2         \* rows of each list in the forms SpecSubmit draws

----------------------------------------------------------------------------
(* Values *)

Null == <<>>
Some(v) == <<v>>

\* `x ?? 0`
OrZero(x) == IF x = Null THEN 0 ELSE x[1]

\* HTMLInputElement.valueAsNumber: a number or NaN
NaN == [isNaN |-> TRUE, num |-> 0]
Number(n) == [isNaN |-> FALSE, num |-> n]

getNumberValue(value) == IF value.isNaN THEN Null ELSE Some(value.num)

DEFAULT_CASH_ENTRIES ==
    << [denomination |-> Some(20000), quantity |-> Null],
       [denomination |-> Some(10000), quantity |-> Null],
       [denomination |-> Some(2000),  quantity |-> Null] >>

BlankCashEntry == [denomination |-> Null, quantity |-> Null]
BlankExpense == [detail |-> "", amount |-> Null]

\* The form state signals as one record
Form(n, s, fd, py, mp, ds, ce, ex) ==
    [closerName |-> n, shift |-> s, firstDataIncome |-> fd,
     pedidosYaIncome |-> py, mercadoPagoIncome |-> mp, dailySummary |-> ds,
     cashEntries |-> ce, expenses |-> ex]

FormState == Form(closerName, shift, firstDataIncome, pedidosYaIncome,
                  mercadoPagoIncome, dailySummary, cashEntries, expenses)

\* The values resetForm writes, which are also the initial values
DefaultForm == Form("", "manana", Null, Null, Null, Null,
                    DEFAULT_CASH_ENTRIES, <<BlankExpense>>)

----------------------------------------------------------------------------
(* Computed signals, as functions of the form state *)

\* variant: an absent quantity counts as one note
RECURSIVE SumCashAbsentQuantityAsOne(_)
SumCashAbsentQuantityAsOne(entries) ==
    IF entries = <<>> THEN 0
    ELSE SumCashAbsentQuantityAsOne(SubSeq(entries, 1, Len(entries) - 1))
         + OrZero(entries[Len(entries)].denomination)
           * (IF entries[Len(entries)].quantity = Null THEN 1
              ELSE entries[Len(entries)].quantity[1])

RECURSIVE SumCash(_)
SumCash(entries) ==
    IF entries = <<>> THEN 0
    ELSE SumCash(SubSeq(entries, 1, Len(entries) - 1))
         + OrZero(entries[Len(entries)].denomination)
           * OrZero(entries[Len(entries)].quantity)

cashSubtotal(f) == SumCash(f.cashEntries)

RECURSIVE SumExpenses(_)
SumExpenses(entries) ==
    IF entries = <<>> THEN 0
    ELSE SumExpenses(SubSeq(entries, 1, Len(entries) - 1))
         + OrZero(entries[Len(entries)].amount)

expensesSubtotal(f) == SumExpenses(f.expenses)

digitalIncomeSubtotal(f) ==
    OrZero(f.firstDataIncome) + OrZero(f.pedidosYaIncome)
    + OrZero(f.mercadoPagoIncome)

totalIncome(f) == digitalIncomeSubtotal(f) + cashSubtotal(f)

netTotal(f) == totalIncome(f) - expensesSubtotal(f)

\* variant: the expenses are subtracted, as in netTotal
absoluteTotalAsNet(f) == totalIncome(f) - expensesSubtotal(f)

absoluteTotal(f) == totalIncome(f) + expensesSubtotal(f)

\* variant: the difference is taken from netTotal
differenceFromNetTotal(f) == netTotal(f) - OrZero(f.dailySummary)

difference(f) == absoluteTotal(f) - OrZero(f.dailySummary)

----------------------------------------------------------------------------
(* Batch construction of submitForm *)

LogEntry(now, f, imputation, entry, amount) ==
    [day |-> now, closerName |-> f.closerName, shift |-> f.shift,
     accountingImputation |-> imputation, accountEntry |-> entry,
     amount |-> amount]

\* `if ((x ?? 0) > 0) newLogEntries.push({... amount: x!})`
IncomeEntry(now, f, x, imputation, entry) ==
    IF OrZero(x) > 0 THEN <<LogEntry(now, f, imputation, entry, x[1])>>
    ELSE <<>>

CashIncomeEntry(now, f) ==
    IF cashSubtotal(f) > 0
    THEN <<LogEntry(now, f, "Ventas en Efectivo", "Ingreso: Efectivo",
                    cashSubtotal(f))>>
    ELSE <<>>

\* variant: the detail test is missing
ExpenseQualifiesAnyDetail(expense) ==
    /\ expense.amount # Null
    /\ expense.amount[1] > 0

\* `expense.amount && expense.amount > 0 && expense.detail`:
\* null and 0 are falsy numbers, '' is the falsy string
ExpenseQualifies(expense) ==
    /\ expense.amount # Null
    /\ expense.amount[1] # 0
    /\ expense.amount[1] > 0
    /\ expense.detail # ""

RECURSIVE ExpenseLogEntries(_, _, _)
ExpenseLogEntries(now, f, entries) ==
    IF entries = <<>> THEN <<>>
    ELSE LET expense == Head(entries)
         IN (IF ExpenseQualifies(expense)
             THEN <<LogEntry(now, f, "Gastos Operativos",
                             "Gasto: " \o expense.detail, -expense.amount[1])>>
             ELSE <<>>)
            \o ExpenseLogEntries(now, f, Tail(entries))

\* variant: `if (this.dailySummary())`, which takes 0 for absent
SummaryEntriesIfTruthy(now, f) ==
    IF f.dailySummary # Null /\ f.dailySummary[1] # 0
    THEN << LogEntry(now, f, "Cierre", "Resumen Diario (Manual)",
                     f.dailySummary[1]),
            LogEntry(now, f, "Cierre", "Diferencia de Caja", difference(f)) >>
    ELSE <<>>

SummaryEntries(now, f) ==
    IF f.dailySummary # Null
    THEN << LogEntry(now, f, "Cierre", "Resumen Diario (Manual)",
                     f.dailySummary[1]),
            LogEntry(now, f, "Cierre", "Diferencia de Caja", difference(f)) >>
    ELSE <<>>

\* variant: the expense entries are pushed before the cash entry
newLogEntriesExpensesFirst(now, f) ==
    IncomeEntry(now, f, f.firstDataIncome, "Ventas con Tarjeta",
                "Ingreso: First Data")
    \o IncomeEntry(now, f, f.pedidosYaIncome, "Ventas Delivery",
                   "Ingreso: PedidosYa")
    \o IncomeEntry(now, f, f.mercadoPagoIncome, "Ventas Digitales",
                   "Ingreso: Mercado Pago")
    \o ExpenseLogEntries(now, f, f.expenses)
    \o CashIncomeEntry(now, f)
    \o SummaryEntries(now, f)

\* newLogEntries as it stands when line 200 is reached
newLogEntries(now, f) ==
    IncomeEntry(now, f, f.firstDataIncome, "Ventas con Tarjeta",
                "Ingreso: First Data")
    \o IncomeEntry(now, f, f.pedidosYaIncome, "Ventas Delivery",
                   "Ingreso: PedidosYa")
    \o IncomeEntry(now, f, f.mercadoPagoIncome, "Ventas Digitales",
                   "Ingreso: Mercado Pago")
    \o CashIncomeEntry(now, f)
    \o ExpenseLogEntries(now, f, f.expenses)
    \o SummaryEntries(now, f)

\* variant: only the shift is validated
ValidationIgnoresName(f) == f.shift = ""

\* `!this.closerName() || !this.shift()`
ValidationFails(f) == f.closerName = "" \/ f.shift = ""

MsgValidation == "Por favor, complete su nombre y el turno antes de enviar."
MsgNothing == "No hay movimientos para registrar."
MsgFallback == "Error al enviar. Intente de nuevo."
MsgNetwork == "Error de red/CORS. Verifique la conexion."
MsgServer(status) == "Error del servidor: " \o ToString(status) \o "."

\* variant: the two branches of the status test are swapped
ErrorMessageSwapped(status) ==
    IF status = 0 THEN MsgServer(status) ELSE MsgNetwork

\* the message the error callback ends with
ErrorMessage(status) ==
    IF status = 0 THEN MsgNetwork ELSE MsgServer(status)

\* variant: `[...currentLog, ...newLogEntries]`
AppendBatch(batch, currentLog) == currentLog \o batch

\* `[...newLogEntries, ...currentLog]`
PrependBatch(batch, currentLog) == batch \o currentLog

----------------------------------------------------------------------------
(* Inputs the events carry *)

Names == {"", "ana"}
Shifts == {"manana", "tarde"}
Details == {"", "ice"}
KeyedNumbers == {NaN, Number(0), Number(2)}
CashFields == {"denomination", "quantity"}
\* HttpErrorResponse.status: 0 when no response arrived, else the server's code
HttpStatuses == {0, 500}

Statuses == {"idle", "sending", "success", "error"}

----------------------------------------------------------------------------
(* Initial state: the field initialisers of AppComponent *)

Init ==
    /\ closerName = ""
    /\ shift = "manana"
    /\ firstDataIncome = Null
    /\ pedidosYaIncome = Null
    /\ mercadoPagoIncome = Null
    /\ dailySummary = Null
    /\ cashEntries = DEFAULT_CASH_ENTRIES
    /\ expenses = <<BlankExpense>>
    /\ webhookStatus = "idle"
    /\ webhookError = Null
    /\ logHistory = <<>>
    /\ pending = {}
    /\ timers = 0
    /\ clock = 0
    /\ edits = 0
    /\ requests = 0
    /\ accepted = <<>>
    /\ lastEvent = [kind |-> "init", writes |-> <<>>]

----------------------------------------------------------------------------
(* Real-time input handlers and list handlers.  None of them touches the   *)
(* webhook status, the history or the deferred work.                       *)

\* what every user edit event does besides its own assignment
UserEdit ==
    /\ edits < MaxEdits
    /\ edits' = edits + 1
    /\ pending' = {[r EXCEPT !.edited = TRUE] : r \in pending}
    /\ lastEvent' = [kind |-> "edit", writes |-> <<>>]
    /\ UNCHANGED <<webhookStatus, webhookError, logHistory, timers, clock,
                   requests, accepted>>

onNameKeyup ==
    \E value \in Names :
        /\ UserEdit
        /\ closerName' = value
        /\ UNCHANGED <<shift, firstDataIncome, pedidosYaIncome,
                       mercadoPagoIncome, dailySummary, cashEntries, expenses>>

onShiftChange ==
    \E value \in Shifts :
        /\ UserEdit
        /\ shift' = value
        /\ UNCHANGED <<closerName, firstDataIncome, pedidosYaIncome,
                       mercadoPagoIncome, dailySummary, cashEntries, expenses>>

onFirstDataKeyup ==
    \E value \in KeyedNumbers :
        /\ UserEdit
        /\ firstDataIncome' = getNumberValue(value)
        /\ UNCHANGED <<closerName, shift, pedidosYaIncome, mercadoPagoIncome,
                       dailySummary, cashEntries, expenses>>

onPedidosYaKeyup ==
    \E value \in KeyedNumbers :
        /\ UserEdit
        /\ pedidosYaIncome' = getNumberValue(value)
        /\ UNCHANGED <<closerName, shift, firstDataIncome, mercadoPagoIncome,
                       dailySummary, cashEntries, expenses>>

onMercadoPagoKeyup ==
    \E value \in KeyedNumbers :
        /\ UserEdit
        /\ mercadoPagoIncome' = getNumberValue(value)
        /\ UNCHANGED <<closerName, shift, firstDataIncome, pedidosYaIncome,
                       dailySummary, cashEntries, expenses>>

onDailySummaryKeyup ==
    \E value \in KeyedNumbers :
        /\ UserEdit
        /\ dailySummary' = getNumberValue(value)
        /\ UNCHANGED <<closerName, shift, firstDataIncome, pedidosYaIncome,
                       mercadoPagoIncome, cashEntries, expenses>>

\* `newEntries[index] = { ...newEntries[index], [field]: value }` on a copy
SetCashField(entries, index, field, value) ==
    [entries EXCEPT ![index] = [@ EXCEPT ![field] = value]]

SetExpenseDetail(entries, index, value) ==
    [entries EXCEPT ![index] = [@ EXCEPT !.detail = value]]

SetExpenseAmount(entries, index, value) ==
    [entries EXCEPT ![index] = [@ EXCEPT !.amount = value]]

\* variant: `entries.filter((_, i) => i < index)`, which drops the rows after
\* the removed one as well
RemoveFrom(entries, index) ==
    [i \in 1..(index - 1) |-> entries[i]]

\* `entries.filter((_, i) => i !== index)`
RemoveAt(entries, index) ==
    [i \in 1..(Len(entries) - 1) |->
        IF i < index THEN entries[i] ELSE entries[i + 1]]

onCashEntryKeyup ==
    \E index \in 1..Len(cashEntries), field \in CashFields,
       value \in KeyedNumbers :
        /\ UserEdit
        /\ cashEntries' =
               SetCashField(cashEntries, index, field, getNumberValue(value))
        /\ UNCHANGED <<closerName, shift, firstDataIncome, pedidosYaIncome,
                       mercadoPagoIncome, dailySummary, expenses>>

onExpenseDetailKeyup ==
    \E index \in 1..Len(expenses), value \in Details :
        /\ UserEdit
        /\ expenses' = SetExpenseDetail(expenses, index, value)
        /\ UNCHANGED <<closerName, shift, firstDataIncome, pedidosYaIncome,
                       mercadoPagoIncome, dailySummary, cashEntries>>

onExpenseAmountKeyup ==
    \E index \in 1..Len(expenses), value \in KeyedNumbers :
        /\ UserEdit
        /\ expenses' = SetExpenseAmount(expenses, index, getNumberValue(value))
        /\ UNCHANGED <<closerName, shift, firstDataIncome, pedidosYaIncome,
                       mercadoPagoIncome, dailySummary, cashEntries>>

addCashEntry ==
    /\ UserEdit
    /\ cashEntries' = Append(cashEntries, BlankCashEntry)
    /\ UNCHANGED <<closerName, shift, firstDataIncome, pedidosYaIncome,
                   mercadoPagoIncome, dailySummary, expenses>>

removeCashEntry ==
    \E index \in 1..Len(cashEntries) :
        /\ UserEdit
        /\ cashEntries' = RemoveAt(cashEntries, index)
        /\ UNCHANGED <<closerName, shift, firstDataIncome, pedidosYaIncome,
                       mercadoPagoIncome, dailySummary, expenses>>

addExpense ==
    /\ UserEdit
    /\ expenses' = Append(expenses, BlankExpense)
    /\ UNCHANGED <<closerName, shift, firstDataIncome, pedidosYaIncome,
                   mercadoPagoIncome, dailySummary, cashEntries>>

removeExpense ==
    \E index \in 1..Len(expenses) :
        /\ UserEdit
        /\ expenses' = RemoveAt(expenses, index)
        /\ UNCHANGED <<closerName, shift, firstDataIncome, pedidosYaIncome,
                       mercadoPagoIncome, dailySummary, cashEntries>>

----------------------------------------------------------------------------
(* Form submission *)

\* variant: dailySummary is left as it is
resetFormKeepsSummary ==
    /\ closerName' = ""
    /\ shift' = "manana"
    /\ firstDataIncome' = Null
    /\ pedidosYaIncome' = Null
    /\ mercadoPagoIncome' = Null
    /\ dailySummary' = dailySummary
    /\ cashEntries' = DEFAULT_CASH_ENTRIES
    /\ expenses' = <<BlankExpense>>

\* resetForm(): the eight form signals get their seed values
resetForm ==
    /\ closerName' = ""
    /\ shift' = "manana"
    /\ firstDataIncome' = Null
    /\ pedidosYaIncome' = Null
    /\ mercadoPagoIncome' = Null
    /\ dailySummary' = Null
    /\ cashEntries' = DEFAULT_CASH_ENTRIES
    /\ expenses' = <<BlankExpense>>

\* the request http.post issues, with the closure its callbacks keep
\* (newLogEntries) and, as history, the form when it was issued
Request(now, f) ==
    [id |-> now, body |-> newLogEntries(now, f), form |-> f, edited |-> FALSE]

\* submitForm(), lines 158-205 and the http.post call of line 206.  The
\* status is set to 'sending' first and to 'error' by an early return:
\* `writes` lists the values the handler writes to webhookStatus, in order.
submitForm ==
    /\ clock < MaxSubmits
    /\ clock' = clock + 1
    /\ LET now == clock + 1
           f == FormState
       IN IF ValidationFails(f)
          THEN /\ webhookStatus' = "error"
               /\ webhookError' = Some(MsgValidation)
               /\ UNCHANGED <<pending, requests>>
               /\ lastEvent' = [kind |-> "submit", form |-> f, outcome |-> "invalid",
                                writes |-> <<"sending", "error">>]
          ELSE IF Len(newLogEntries(now, f)) = 0
          THEN /\ webhookStatus' = "error"
               /\ webhookError' = Some(MsgNothing)
               /\ UNCHANGED <<pending, requests>>
               /\ lastEvent' = [kind |-> "submit", form |-> f, outcome |-> "empty",
                                writes |-> <<"sending", "error">>]
          ELSE /\ webhookStatus' = "sending"
               /\ webhookError' = Null
               /\ pending' = pending \cup {Request(now, f)}
               /\ requests' = requests + 1
               /\ lastEvent' = [kind |-> "submit", form |-> f, outcome |-> "posted",
                                writes |-> <<"sending">>]
    /\ UNCHANGED formVars
    /\ UNCHANGED <<logHistory, timers, edits, accepted>>

\* the `next` callback of the subscription, lines 207-213
HttpNext ==
    \E r \in pending :
        /\ pending' = pending \ {r}
        /\ webhookStatus' = "success"
        /\ logHistory' = PrependBatch(r.body, logHistory)
        /\ resetForm
        /\ timers' = timers + 1
        /\ accepted' = <<r.body>> \o accepted
        /\ lastEvent' = [kind |-> "next", req |-> r, writes |-> <<"success">>]
        /\ UNCHANGED <<webhookError, clock, edits, requests>>

\* variant: the error callback posts the batch again
HttpErrorRetries ==
    \E r \in pending, status \in HttpStatuses :
        /\ pending' = pending
        /\ requests' = requests + 1
        /\ webhookStatus' = "error"
        /\ webhookError' = Some(ErrorMessage(status))
        /\ lastEvent' = [kind |-> "error", req |-> r, status |-> status,
                         writes |-> <<"error">>]
        /\ UNCHANGED formVars
        /\ UNCHANGED <<logHistory, timers, clock, edits, accepted>>

\* the `error` callback of the subscription, lines 214-224
HttpError ==
    \E r \in pending, status \in HttpStatuses :
        /\ pending' = pending \ {r}
        /\ webhookStatus' = "error"
        /\ webhookError' = Some(ErrorMessage(status))
        /\ lastEvent' = [kind |-> "error", req |-> r, status |-> status,
                         writes |-> <<"error">>]
        /\ UNCHANGED formVars
        /\ UNCHANGED <<logHistory, timers, clock, edits, requests, accepted>>

\* the setTimeout callback of line 212, 5000 ms after a success
TimeoutFires ==
    /\ timers > 0
    /\ timers' = timers - 1
    /\ webhookStatus' = "idle"
    /\ lastEvent' = [kind |-> "timeout", writes |-> <<"idle">>]
    /\ UNCHANGED formVars
    /\ UNCHANGED <<webhookError, logHistory, pending, clock, edits, requests,
                   accepted>>

Next ==
    \/ onNameKeyup
    \/ onShiftChange
    \/ onFirstDataKeyup
    \/ onPedidosYaKeyup
    \/ onMercadoPagoKeyup
    \/ onDailySummaryKeyup
    \/ onCashEntryKeyup
    \/ onExpenseDetailKeyup
    \/ onExpenseAmountKeyup
    \/ addCashEntry
    \/ removeCashEntry
    \/ addExpense
    \/ removeExpense
    \/ submitForm
    \/ HttpNext
    \/ HttpError
    \/ TimeoutFires

Spec == Init /\ [][Next]_vars

\* The same behaviours, with the event loop running every scheduled
\* setTimeout callback: a callback that stays scheduled is eventually run.
SpecLive == Init /\ [][Next]_vars /\ WF_vars(TimeoutFires)

\* The component while a request is in flight: the user has typed a name and
\* a First Data income and clicked submit, and the response has not arrived.
\* `edits` counts the edit events from here on.
InitInFlight ==
    /\ closerName = "ana"
    /\ shift = "manana"
    /\ firstDataIncome = Some(100)
    /\ pedidosYaIncome = Null
    /\ mercadoPagoIncome = Null
    /\ dailySummary = Null
    /\ cashEntries = DEFAULT_CASH_ENTRIES
    /\ expenses = <<BlankExpense>>
    /\ webhookStatus = "sending"
    /\ webhookError = Null
    /\ logHistory = <<>>
    /\ pending = {Request(1, FormState)}
    /\ timers = 0
    /\ clock = 1
    /\ edits = 0
    /\ requests = 1
    /\ accepted = <<>>
    /\ lastEvent = [kind |-> "submit", form |-> FormState, outcome |-> "posted",
                    writes |-> <<"sending">>]

SpecInFlight == InitInFlight /\ [][Next]_vars

----------------------------------------------------------------------------
(* Submission from any filled-in form.  Every form drawn here is one the   *)
(* handlers above can produce: each scalar is settable to any number or    *)
(* to Null, and rows can be added, removed and set field by field.         *)

DrawnFirstData == {Null, Some(0), Some(100)}
DrawnPedidosYa == {Null, Some(7)}
DrawnMercadoPago == {Null, Some(9)}
DrawnSummary == {Null, Some(0), Some(40085)}
DrawnCashRows ==
    { [denomination |-> Some(20000), quantity |-> Some(2)],
      [denomination |-> Some(10000), quantity |-> Null],
      [denomination |-> Null,        quantity |-> Some(2)],
      [denomination |-> Some(2000),  quantity |-> Some(-1)] }
DrawnExpenseRows ==
    [detail : {"ice"}, amount : {Null, Some(0), Some(15), Some(-15)}]
        \cup [detail : {""}, amount : {Null, Some(15)}]

SeqsUpTo(S, n) == UNION {[1..k -> S] : k \in 0..n}

InitSubmit ==
    /\ closerName \in Names
    /\ shift = "tarde"
    /\ firstDataIncome \in DrawnFirstData
    /\ pedidosYaIncome \in DrawnPedidosYa
    /\ mercadoPagoIncome \in DrawnMercadoPago
    /\ dailySummary \in DrawnSummary
    /\ cashEntries \in SeqsUpTo(DrawnCashRows, MaxRows)
    /\ expenses \in SeqsUpTo(DrawnExpenseRows, MaxRows)
    /\ webhookStatus = "idle"
    /\ webhookError = Null
    /\ logHistory = <<>>
    /\ pending = {}
    /\ timers = 0
    /\ clock = MaxSubmits - 1
    /\ edits = MaxEdits
    /\ requests = 0
    /\ accepted = <<>>
    /\ lastEvent = [kind |-> "init", writes |-> <<>>]

NextSubmit ==
    \/ submitForm
    \/ HttpNext
    \/ HttpError

SpecSubmit == InitSubmit /\ [][NextSubmit]_vars

----------------------------------------------------------------------------
(* Properties of the submission lifecycle *)

AllowedTransitions ==
    { <<"idle", "sending">>, <<"error", "sending">>, <<"sending", "success">>,
      <<"sending", "error">>, <<"success", "idle">> }

\* every change along from -> writes[1] -> writes[2] -> ... is an allowed one
RECURSIVE ChangesAllowed(_, _)
ChangesAllowed(from, writes) ==
    \/ writes = <<>>
    \/ /\ Head(writes) = from \/ <<from, Head(writes)>> \in AllowedTransitions
       /\ ChangesAllowed(Head(writes), Tail(writes))

\* C1: every change of webhookStatus, including the ones a handler makes on
\* its way (submitForm writes 'sending' and then possibly 'error'), is one of
\* idle->sending, error->sending, sending->success, sending->error,
\* success->idle.
C1_OnlyListedTransitions ==
    [][ChangesAllowed(webhookStatus, lastEvent'.writes)]_vars

\* C2: after a submission has ended in error (validation failure, empty
\* batch, or the error callback) with no user edit since it was initiated,
\* the form state is the one the submission was initiated from.
C2_FailedSubmissionKeepsForm ==
    /\ (lastEvent.kind = "submit" /\ lastEvent.outcome \in {"invalid", "empty"})
           => FormState = lastEvent.form
    /\ (lastEvent.kind = "error" /\ ~lastEvent.req.edited)
           => FormState = lastEvent.req.form

\* C3: the step of a success callback leaves the form at its default seed and
\* the status at 'success', and puts the batch built when the submission was
\* initiated, in construction order, in front of the unchanged history.
C3_SuccessResetsFormAndPrepends ==
    [][lastEvent'.kind = "next" =>
          /\ FormState' = DefaultForm
          /\ webhookStatus' = "success"
          /\ lastEvent'.req.body
                 = newLogEntries(lastEvent'.req.id, lastEvent'.req.form)
          /\ logHistory' = lastEvent'.req.body \o logHistory]_vars

C3_Witness ==
    /\ lastEvent.kind = "next"
    /\ lastEvent.req.form # DefaultForm
    /\ Len(logHistory) > Len(lastEvent.req.body)

RECURSIVE Flatten(_)
Flatten(batches) ==
    IF batches = <<>> THEN <<>> ELSE Head(batches) \o Flatten(Tail(batches))

IsSuffix(old, new) ==
    /\ Len(old) <= Len(new)
    /\ old = SubSeq(new, Len(new) - Len(old) + 1, Len(new))

\* C4: logHistory is the concatenation of the batches of the succeeded
\* requests, most recently completed first; only a success callback changes
\* it, and the history before a step is a suffix of the history after it.
C4_HistoryIsAcceptedBatches ==
    /\ [](logHistory = Flatten(accepted))
    /\ [][/\ IsSuffix(logHistory, logHistory')
          /\ lastEvent'.kind # "next" => logHistory' = logHistory]_vars

C4_Witness ==
    /\ Len(accepted) = 2
    /\ accepted[1] # accepted[2]
    /\ accepted[1][1].day < accepted[2][1].day

\* C5: from 'error', a step that is not a submit action leaves the status at
\* 'error' and the error message as it was.
C5_ErrorStaysUntilSubmit ==
    [][(webhookStatus = "error" /\ lastEvent'.kind # "submit") =>
          (webhookStatus' = "error" /\ webhookError' = webhookError)]_vars

\* C6: a submit action with an empty closerName ends in 'error' with the
\* validation message, and issues no request and changes no history,
\* whatever the other form fields hold.
C6_EmptyNameRejected ==
    [][(lastEvent'.kind = "submit" /\ closerName = "") =>
          /\ webhookStatus' = "error"
          /\ webhookError' = Some(MsgValidation)
          /\ lastEvent'.outcome = "invalid"
          /\ pending' = pending
          /\ requests' = requests
          /\ logHistory' = logHistory]_vars

C6_Witness ==
    /\ lastEvent.kind = "submit"
    /\ lastEvent.form.closerName = ""
    /\ lastEvent.form.firstDataIncome = Some(100)
    /\ lastEvent.form.dailySummary # Null
    /\ Len(lastEvent.form.expenses) = 2

\* the conditions under which the claim says the batch is empty
NothingToSubmit(f) ==
    /\ ~(f.firstDataIncome # Null /\ f.firstDataIncome[1] > 0)
    /\ ~(f.pedidosYaIncome # Null /\ f.pedidosYaIncome[1] > 0)
    /\ ~(f.mercadoPagoIncome # Null /\ f.mercadoPagoIncome[1] > 0)
    /\ cashSubtotal(f) <= 0
    /\ ~\E i \in 1..Len(f.expenses) :
            /\ f.expenses[i].amount # Null
            /\ f.expenses[i].amount[1] > 0
            /\ f.expenses[i].detail # ""
    /\ f.dailySummary = Null

\* C7: a submit action with a non-empty closerName finds its batch empty
\* exactly when NothingToSubmit holds of the form, and then ends in 'error'
\* with the "nothing to submit" message and issues no request.
C7_EmptyBatchRejected ==
    [][(lastEvent'.kind = "submit" /\ closerName # "") =>
          /\ (lastEvent'.outcome = "empty") <=> NothingToSubmit(FormState)
          /\ (lastEvent'.outcome = "posted") <=> ~NothingToSubmit(FormState)
          /\ NothingToSubmit(FormState) =>
                /\ webhookStatus' = "error"
                /\ webhookError' = Some(MsgNothing)
                /\ pending' = pending
                /\ requests' = requests]_vars

C7_Witness ==
    /\ lastEvent.kind = "submit"
    /\ lastEvent.outcome = "empty"
    /\ lastEvent.form.firstDataIncome = Some(0)
    /\ cashSubtotal(lastEvent.form) < 0
    /\ \E i \in 1..Len(lastEvent.form.expenses) :
           lastEvent.form.expenses[i] = [detail |-> "", amount |-> Some(15)]

RequestIds(reqs) == {r.id : r \in reqs}

\* C8: a submit action that passes validation with a non-empty batch issues
\* exactly one request, carrying that batch; no other step issues a request;
\* the requests issued never outnumber the submit actions.
C8_OneRequestPerSubmit ==
    /\ [](requests <= clock)
    /\ [][/\ (/\ lastEvent'.kind = "submit"
              /\ ~ValidationFails(FormState)
              /\ newLogEntries(clock', FormState) # <<>>) =>
                 /\ requests' = requests + 1
                 /\ \E r \in pending' \ pending :
                        /\ pending' = pending \cup {r}
                        /\ r.body = newLogEntries(clock', FormState)
          /\ lastEvent'.kind # "submit" =>
                 /\ requests' = requests
                 /\ RequestIds(pending') \subseteq RequestIds(pending)]_vars

C8_Witness ==
    /\ lastEvent.kind = "error"
    /\ requests = 2
    /\ clock = 3
    /\ pending # {}

----------------------------------------------------------------------------
(* Properties of the batch a submit action builds *)

\* position of an entry's kind in the construction order
Rank(e) ==
    CASE e.accountEntry = "Ingreso: First Data" -> 1
      [] e.accountEntry = "Ingreso: PedidosYa" -> 2
      [] e.accountEntry = "Ingreso: Mercado Pago" -> 3
      [] e.accountEntry = "Ingreso: Efectivo" -> 4
      [] e.accountingImputation = "Gastos Operativos" -> 5
      [] e.accountEntry = "Resumen Diario (Manual)" -> 6
      [] e.accountEntry = "Diferencia de Caja" -> 7
      [] OTHER -> 0

Amounts(batch) == [i \in 1..Len(batch) |-> batch[i].amount]

Positive(x) == x # Null /\ x[1] > 0

\* an expense row the claims call qualifying
Qualifies(row) == row.amount # Null /\ row.amount[1] > 0 /\ row.detail # ""

IsExpenseEntry(e) == e.accountingImputation = "Gastos Operativos"

\* the one entry of rank k is there exactly when `present`, with `amount`
OneOfRank(batch, k, present, amount) ==
    /\ present <=> \E i \in 1..Len(batch) : Rank(batch[i]) = k
    /\ \A i \in 1..Len(batch) : Rank(batch[i]) = k => batch[i].amount = amount

BatchInOrder(batch, f) ==
    /\ \A i \in 1..Len(batch) : Rank(batch[i]) \in 1..7
    /\ \A i, j \in 1..Len(batch) :
           i < j => \/ Rank(batch[i]) < Rank(batch[j])
                    \/ Rank(batch[i]) = 5 /\ Rank(batch[j]) = 5
    /\ OneOfRank(batch, 1, Positive(f.firstDataIncome), OrZero(f.firstDataIncome))
    /\ OneOfRank(batch, 2, Positive(f.pedidosYaIncome), OrZero(f.pedidosYaIncome))
    /\ OneOfRank(batch, 3, Positive(f.mercadoPagoIncome),
                 OrZero(f.mercadoPagoIncome))
    /\ OneOfRank(batch, 4, cashSubtotal(f) > 0, cashSubtotal(f))
    /\ Len(SelectSeq(batch, IsExpenseEntry)) = Len(SelectSeq(f.expenses, Qualifies))
    /\ \A i \in 1..Len(batch) : Rank(batch[i]) = 5 => batch[i].amount < 0
    /\ OneOfRank(batch, 6, f.dailySummary # Null, OrZero(f.dailySummary))
    /\ (f.dailySummary # Null) <=> \E i \in 1..Len(batch) : Rank(batch[i]) = 7

\* the form of the worked example
IsExampleForm(f) ==
    /\ f.firstDataIncome = Some(100)
    /\ f.pedidosYaIncome = Null
    /\ f.mercadoPagoIncome = Null
    /\ cashSubtotal(f) = 40000
    /\ f.expenses = <<[detail |-> "ice", amount |-> Some(15)]>>
    /\ f.dailySummary = Some(40085)

\* C9: the batch a request carries lists, in this order and each only under
\* its condition, the First Data, PedidosYa and Mercado Pago incomes, one
\* aggregate cash entry, the qualifying expenses, the manual summary and the
\* difference; the example form gives the amounts 100, 40000, -15, 40085, 30.
C9_BatchConstructionOrder ==
    \A r \in pending :
        /\ BatchInOrder(r.body, r.form)
        /\ IsExampleForm(r.form) =>
               Amounts(r.body) = <<100, 40000, -15, 40085, 30>>

C9_Witness ==
    /\ \E r \in pending : IsExampleForm(r.form) /\ Len(r.form.cashEntries) = 2
    /\ lastEvent.kind = "submit"

\* C10: the 'Gastos Operativos' entries of a batch are, in list order, one
\* per expense row with a present amount > 0 and a non-empty detail, each
\* with the row's amount negated and a label holding the row's detail.
C10_ExpenseEntries ==
    \A r \in pending :
        LET rows == SelectSeq(r.form.expenses, Qualifies)
            entries == SelectSeq(r.body, IsExpenseEntry)
        IN /\ Len(entries) = Len(rows)
           /\ \A i \in 1..Len(rows) :
                  /\ entries[i].amount = -rows[i].amount[1]
                  /\ entries[i].accountEntry = "Gasto: " \o rows[i].detail

C10_Witness ==
    \E r \in pending :
        /\ r.form.expenses[1] = [detail |-> "ice", amount |-> Some(-15)]
        /\ r.form.expenses[2] = [detail |-> "ice", amount |-> Some(15)]
        /\ Len(SelectSeq(r.body, IsExpenseEntry)) = 1
        /\ lastEvent.kind = "submit"

IsCierreEntry(e) == e.accountingImputation = "Cierre"

\* a form with a name, dailySummary = 0 and nothing else to record
OnlyZeroSummary(f) ==
    /\ f.closerName # ""
    /\ f.dailySummary = Some(0)
    /\ ~Positive(f.firstDataIncome)
    /\ ~Positive(f.pedidosYaIncome)
    /\ ~Positive(f.mercadoPagoIncome)
    /\ cashSubtotal(f) <= 0
    /\ SelectSeq(f.expenses, Qualifies) = <<>>

\* C11: a batch built from a form whose dailySummary is present, 0 included,
\* ends with exactly two 'Cierre' entries, the summary and then
\* absoluteTotal - dailySummary; with dailySummary absent it holds none.  A
\* submit from a form with a name, dailySummary = 0 and nothing else posts a
\* request with a non-empty batch.
C11_SummaryEntries ==
    /\ \A r \in pending :
           LET batch == r.body
               n == Len(batch)
               cierre == SelectSeq(batch, IsCierreEntry)
           IN IF r.form.dailySummary # Null
              THEN /\ Len(cierre) = 2
                   /\ n >= 2
                   /\ IsCierreEntry(batch[n - 1])
                   /\ batch[n - 1].amount = r.form.dailySummary[1]
                   /\ IsCierreEntry(batch[n])
                   /\ batch[n].amount
                          = absoluteTotal(r.form) - r.form.dailySummary[1]
              ELSE cierre = <<>>
    /\ (lastEvent.kind = "submit" /\ OnlyZeroSummary(lastEvent.form)) =>
           /\ lastEvent.outcome = "posted"
           /\ \E r \in pending : r.id = clock /\ Len(r.body) = 2

C11_Witness ==
    /\ lastEvent.kind = "submit"
    /\ OnlyZeroSummary(lastEvent.form)
    /\ lastEvent.form.expenses = <<[detail |-> "", amount |-> Some(15)]>>
    /\ \E r \in pending : Amounts(r.body) = <<0, 15>>

----------------------------------------------------------------------------
(* Properties of the callbacks *)

\* C12: after the error callback the status is 'error' and the message is
\* the network message when the failure carried status 0 (no response), and
\* the server message with the status code in it otherwise; the two differ
\* and neither is the fallback message.
C12_ErrorMessageByClass ==
    lastEvent.kind = "error" =>
        /\ webhookStatus = "error"
        /\ webhookError # Null
        /\ webhookError[1] # MsgFallback
        /\ (lastEvent.status = 0) <=>
               (webhookError[1] = "Error de red/CORS. Verifique la conexion.")
        /\ (lastEvent.status = 500) <=>
               (webhookError[1] = "Error del servidor: 500.")

C12_Witness ==
    /\ lastEvent.kind = "error"
    /\ lastEvent.status = 500
    /\ webhookError = Some("Error del servidor: 500.")

\* the sums of the claim, taken row by row from the head of the list
RECURSIVE CashSum(_)
CashSum(rows) ==
    IF rows = <<>> THEN 0
    ELSE (IF Head(rows).denomination = Null \/ Head(rows).quantity = Null
          THEN 0
          ELSE Head(rows).denomination[1] * Head(rows).quantity[1])
         + CashSum(Tail(rows))

RECURSIVE ExpenseSum(_)
ExpenseSum(rows) ==
    IF rows = <<>> THEN 0
    ELSE (IF Head(rows).amount = Null THEN 0 ELSE Head(rows).amount[1])
         + ExpenseSum(Tail(rows))

ScalarOrZero(x) == IF x = Null THEN 0 ELSE x[1]

\* C13: after a network success the status becomes 'idle' unless a further
\* submit action is initiated first, and from 'idle' only a submit action
\* changes the status.
C13_SuccessReturnsToIdle ==
    /\ (lastEvent.kind = "next")
           ~> (webhookStatus = "idle" \/ lastEvent.kind = "submit")
    /\ [][(webhookStatus = "idle" /\ lastEvent'.kind # "submit") =>
             webhookStatus' = "idle"]_vars

----------------------------------------------------------------------------
(* Properties of the computed signals and of the list handlers *)

\* C14: in every reachable state absoluteTotal, read from the current form
\* state, is digitalIncomeSubtotal + cashSubtotal + expensesSubtotal, these
\* being the sums of the current scalars and rows with absent as 0, and
\* difference is absoluteTotal - dailySummary with absent as 0.
C14_DerivedTotals ==
    LET f == FormState
        digital == ScalarOrZero(firstDataIncome) + ScalarOrZero(pedidosYaIncome)
                   + ScalarOrZero(mercadoPagoIncome)
    IN /\ digitalIncomeSubtotal(f) = digital
       /\ absoluteTotal(f)
              = digital + CashSum(cashEntries) + ExpenseSum(expenses)
       /\ absoluteTotal(f)
              = digitalIncomeSubtotal(f) + cashSubtotal(f) + expensesSubtotal(f)
       /\ difference(f) = absoluteTotal(f) - ScalarOrZero(dailySummary)

C14_Witness ==
    /\ ExpenseSum(expenses) > 0
    /\ CashSum(cashEntries) > 0
    /\ edits = 2
    /\ absoluteTotal(FormState) = 40002

ExampleCashRows ==
    << [denomination |-> Some(20000), quantity |-> Some(2)],
       [denomination |-> Some(10000), quantity |-> Null] >>

IsCashEntry(e) == e.accountEntry = "Ingreso: Efectivo"

\* C15: cashSubtotal of the current rows is the sum of denomination *
\* quantity with an absent field counted as 0: 0 for no rows, 40000 for the
\* rows {20000, 2}, {10000, absent}; it is the amount of the cash entry of a
\* batch built from those rows.
C15_CashSubtotal ==
    /\ cashSubtotal(FormState) = CashSum(cashEntries)
    /\ cashEntries = <<>> => cashSubtotal(FormState) = 0
    /\ cashEntries = ExampleCashRows => cashSubtotal(FormState) = 40000
    /\ \A r \in pending :
           \A i \in 1..Len(r.body) :
               IsCashEntry(r.body[i]) =>
                   r.body[i].amount = CashSum(r.form.cashEntries)

C15_Witness ==
    /\ cashEntries = ExampleCashRows
    /\ lastEvent.kind = "submit"
    /\ \E r \in pending : \E i \in 1..Len(r.body) :
           IsCashEntry(r.body[i]) /\ r.body[i].amount = 40000

\* a list with row i replaced by `row` and nothing else changed
WithRow(rows, i, row) ==
    [j \in 1..Len(rows) |-> IF j = i THEN row ELSE rows[j]]

\* `after` is `before` without its row i, the later rows moved down by one
IsRemoval(before, after, i) ==
    /\ Len(after) = Len(before) - 1
    /\ \A j \in 1..Len(after) :
           after[j] = IF j < i THEN before[j] ELSE before[j + 1]

\* what the update functions of the handlers return for the current lists
UpdatesKeepTheRest ==
    /\ \A i \in 1..Len(cashEntries), value \in KeyedNumbers :
           LET v == getNumberValue(value)
               row == cashEntries[i]
           IN /\ SetCashField(cashEntries, i, "denomination", v)
                     = WithRow(cashEntries, i,
                               [denomination |-> v, quantity |-> row.quantity])
              /\ SetCashField(cashEntries, i, "quantity", v)
                     = WithRow(cashEntries, i,
                               [denomination |-> row.denomination,
                                quantity |-> v])
    /\ \A i \in 1..Len(expenses) :
           /\ \A value \in Details :
                  SetExpenseDetail(expenses, i, value)
                      = WithRow(expenses, i, [detail |-> value,
                                              amount |-> expenses[i].amount])
           /\ \A value \in KeyedNumbers :
                  SetExpenseAmount(expenses, i, getNumberValue(value))
                      = WithRow(expenses, i,
                                [detail |-> expenses[i].detail,
                                 amount |-> getNumberValue(value)])
    /\ \A i \in 1..Len(cashEntries) :
           IsRemoval(cashEntries, RemoveAt(cashEntries, i), i)
    /\ \A i \in 1..Len(expenses) :
           IsRemoval(expenses, RemoveAt(expenses, i), i)

\* one list handler has acted on `before`
IsListEdit(before, after, blank, fields, values) ==
    \/ after = before \o <<blank>>
    \/ \E i \in 1..Len(before) : IsRemoval(before, after, i)
    \/ \E i \in 1..Len(before), field \in fields, v \in values :
           after = WithRow(before, i, [before[i] EXCEPT ![field] = v])

ScalarVars == <<closerName, shift, firstDataIncome, pedidosYaIncome,
                mercadoPagoIncome, dailySummary>>

\* C16: updating a field of row i changes that field of that row only,
\* removing row i deletes that row and moves the later rows down in order,
\* adding appends one blank row; a step that changes one list is one of
\* these and leaves the other list, the scalar fields, webhookStatus,
\* webhookError and logHistory unchanged.
C16_ListHandlers ==
    /\ []UpdatesKeepTheRest
    /\ [][lastEvent'.kind = "edit" =>
             /\ UNCHANGED <<webhookStatus, webhookError, logHistory>>
             /\ cashEntries' # cashEntries =>
                    /\ UNCHANGED <<expenses, ScalarVars>>
                    /\ IsListEdit(cashEntries, cashEntries', BlankCashEntry,
                                  CashFields, {Null, Some(0), Some(2)})
             /\ expenses' # expenses =>
                    /\ UNCHANGED <<cashEntries, ScalarVars>>
                    /\ \/ IsListEdit(expenses, expenses', BlankExpense,
                                     {"amount"}, {Null, Some(0), Some(2)})
                       \/ IsListEdit(expenses, expenses', BlankExpense,
                                     {"detail"}, Details)]_vars

C16_Witness ==
    /\ lastEvent.kind = "edit"
    /\ Len(cashEntries) = 2
    /\ cashEntries[1] = DEFAULT_CASH_ENTRIES[1]
    /\ cashEntries[2] = [denomination |-> Some(2000), quantity |-> Some(2)]
    /\ expenses = <<BlankExpense>>

----------------------------------------------------------------------------
(* Properties of the requests in flight *)

\* C17: at most one request awaits its response at any time.
C17_OneRequestInFlight == Cardinality(pending) <= 1

\* C18: while a request awaits its response the status is 'sending'.
C18_SendingWhileInFlight == pending # {} => webhookStatus = "sending"

\* C19: an error message is set exactly when the status is 'error'.
C19_ErrorMessageIffErrorStatus ==
    (webhookError # Null) <=> (webhookStatus = "error")

\* C20: the form state a success callback overwrites is the form state the
\* accepted batch was built from.
C20_ResetDiscardsOnlySubmitted ==
    [][lastEvent'.kind = "next" => FormState = lastEvent'.req.form]_vars

====
